---- MODULE Spec2Model ----
(***************************************************************************)
(* A model of lib/npm.js of nodist: resolution of an npm version specifier *)
(* (resolveVersion, latestVersion, matchingVersion, listAvailable), the    *)
(* install repository (install, remove, listInstalled), the version files  *)
(* (setLocal, getLocal, setGlobal, getGlobal) and the symlink repair walk  *)
(* (resolveLinkedWorkspaces).                                              *)
(*                                                                         *)
(* Each asynchronous function is a small state machine: one action for the *)
(* synchronous part of a call, one for every completion of an awaited      *)
(* operation.  Answers of the collaborators (the release feed, the host    *)
(* runtime, the filesystem, the download) are chosen when they arrive.     *)
(***************************************************************************)
EXTENDS Naturals, Sequences, FiniteSets

VARIABLES
    \* ---- resolveVersion(v, done) ----
    rPc,            \* where the call stands
    rV,             \* the specifier v
    releases,       \* latestVersion: let releases
    page,           \* latestVersion: let page
    requested,      \* page numbers asked of getNpmReleases, in order
    fetched,        \* tag lists the feed answered with, in order
    available,      \* the pool listAvailable resolved with
    rDone,          \* the calls of done, in order
    \* ---- the install repository: install, remove, listInstalled ----
    repo,           \* the names of the entries of this.repoPath
    installedCache, \* this.installedCache
    calls,          \* the calls of install, remove and listInstalled under way
    lastInstall,    \* per version: how the last install ended, "none" once
                    \* a remove of the version has begun since
    \* ---- the version files: setLocal, getLocal, setGlobal, getGlobal ----
    cwd,            \* the working directory, as its path segments
    localFiles,     \* per directory: its .npm-version file
    globalFile,     \* nodistDir/.npm-version-global
    wPc,            \* setLocal, setGlobal: where the call stands
    wText,          \* setLocal, setGlobal: versionSpec
    wOut,           \* setLocal, setGlobal: the calls of cb
    lPc,            \* getLocal: where the call stands
    dirArray,       \* getLocal: dirArray
    reads,          \* getLocal: the files read, in order
    lOut,           \* getLocal: the calls of cb
    gPc,            \* getGlobal: where the call stands
    gOut,           \* getGlobal: the calls of cb
    \* ---- resolveLinkedWorkspaces(dirPath) ----
    tree,           \* the extracted package: per path, what is there
    extracted,      \* the package as it was extracted
    frames,         \* per directory: the call of resolveLinkedWorkspaces on it
    junctionFailed, \* the links whose fs.symlinkAsync(.., 'junction') threw
    \* ---- resolveVersionLocally(spec, done) ----
    qPc,            \* where the call stands
    qSpec,          \* spec
    qInstalled,     \* what listInstalled handed over: er and installed
    qDone           \* the calls of done

resolveVars == <<rPc, rV, releases, page, requested, fetched, available, rDone>>
repoVars    == <<repo, installedCache, calls, lastInstall>>
storeVars   == <<cwd, localFiles, globalFile, wPc, wText, wOut,
                 lPc, dirArray, reads, lOut, gPc, gOut>>

repairVars  == <<tree, extracted, frames, junctionFailed>>

localVars   == <<qPc, qSpec, qInstalled, qDone>>

vars == <<resolveVars, repoVars, storeVars, repairVars, localVars>>

\* what the functions of one part of the module leave alone
notResolve == <<repoVars, storeVars, repairVars, localVars>>
notRepo    == <<resolveVars, storeVars, repairVars, localVars>>
notStore   == <<resolveVars, repoVars, repairVars, localVars>>
notRepair  == <<resolveVars, repoVars, storeVars, localVars>>
notLocal   == <<resolveVars, repoVars, storeVars, repairVars>>

----------------------------------------------------------------------------
(* Bounds *)

MaxPool  == 3     \* longest list of tags listAvailable answers with
MaxTags  == 2     \* longest list of tags on one page of the release feed
MaxPage  == 3     \* pages of the release feed that are asked for
MaxCalls == 2     \* calls on the install repository under way at once
MaxDepth == 3     \* directories below the drive that a working directory is in
MaxLevel == 2     \* levels of entries below node_modules in a package
MaxEntries == 4   \* entries below node_modules in a package

----------------------------------------------------------------------------
(* Strings.  A string is a record: a version "1.0.0" or "v1.0.0" (pre is   *)
(* its prefix), a range "^1.0.0" (pre is its operator), another word (pre  *)
(* is the word), or null.                                                  *)

Zero == <<0, 0, 0>>

Str(k, pre, n) == [k |-> k, pre |-> pre, n |-> n]

Null    == Str("null", "", Zero)
Empty   == Str("word", "", Zero)
Latest  == Str("word", "latest", Zero)
Match   == Str("word", "match", Zero)
Readme  == Str("word", "README", Zero)
LibTag  == Str("word", "arborist-v2.0.0", Zero)

Versions  == {<<1, 0, 0>>, <<2, 0, 0>>, <<2, 5, 3>>, <<8, 1, 0>>}
Prefixes  == {"", "v"}
RangeOps  == {"^", "~", ">="}

VerStrs   == {Str("ver", p, n) : p \in Prefixes, n \in Versions}
RangeStrs == {Str("range", o, n) : o \in RangeOps, n \in Versions}
Tags      == VerStrs \cup {LibTag}

SeqsUpTo(S, n) == UNION {[1..k -> S] : k \in 0..n}

----------------------------------------------------------------------------
(* semver *)

\* semver.compare on the parsed versions: a < b
VerLess(a, b) ==
    \/ a[1] < b[1]
    \/ a[1] = b[1] /\ a[2] < b[2]
    \/ a[1] = b[1] /\ a[2] = b[2] /\ a[3] < b[3]

\* semver.clean(s): the version without its prefix, null when s is no version
clean(s) == IF s.k = "ver" THEN Str("ver", "", s.n) ELSE Null

\* semver.valid(s)
valid(s) == IF s.k = "ver" THEN Str("ver", "", s.n) ELSE Null

\* semver.validRange(s) is truthy: a version is a range, "" is the range "*"
validRange(s) == s.k \in {"ver", "range"} \/ s = Empty

\* semver.satisfies(tag, range); a tag that is no version satisfies nothing
satisfies(tag, range) ==
    /\ tag.k = "ver"
    /\ CASE range.k = "ver"    -> tag.n = range.n
         [] range = Empty      -> TRUE
         [] range.k = "range" /\ range.pre = "^" ->
                tag.n[1] = range.n[1] /\ ~VerLess(tag.n, range.n)
         [] range.k = "range" /\ range.pre = "~" ->
                /\ tag.n[1] = range.n[1] /\ tag.n[2] = range.n[2]
                /\ ~VerLess(tag.n, range.n)
         [] range.k = "range" /\ range.pre = ">=" -> ~VerLess(tag.n, range.n)
         [] OTHER -> FALSE

\* semver.gte(a, b) on cleaned versions
gte(a, b) == ~VerLess(a.n, b.n)

\* the loop of semver.maxSatisfying: max is replaced by a satisfying element
\* only when max compares less than it
RECURSIVE MaxSatFrom(_, _, _, _)
MaxSatFlipped(versions, range, i, max) ==
    IF i > Len(versions) THEN max
    ELSE IF satisfies(versions[i], range)
            /\ (max = Null \/ VerLess(versions[i].n, max.n))
         THEN MaxSatFrom(versions, range, i + 1, versions[i])
         ELSE MaxSatFrom(versions, range, i + 1, max)

MaxSatFrom(versions, range, i, max) ==
    IF i > Len(versions) THEN max
    ELSE IF satisfies(versions[i], range)
            /\ (max = Null \/ VerLess(max.n, versions[i].n))
         THEN MaxSatFrom(versions, range, i + 1, versions[i])
         ELSE MaxSatFrom(versions, range, i + 1, max)

maxSatisfying(versions, range) == MaxSatFrom(versions, range, 1, Null)

----------------------------------------------------------------------------
(* What a callback is called with: done(), done(err), done(null, val).     *)
(* err is the kind of error, text the specifier its message quotes.        *)

CbNone         == [argc |-> 0, err |-> "none", text |-> Null, val |-> Null]
CbErr(e)       == [argc |-> 1, err |-> e, text |-> Null, val |-> Null]
CbNoMatch(v)   == [argc |-> 1, err |-> "NoMatch", text |-> v, val |-> Null]
CbVal(x)       == [argc |-> 2, err |-> "none", text |-> Null, val |-> x]

----------------------------------------------------------------------------
(* getNpmReleases(page): the tags of one page that look like vN.N.N,       *)
(* sorted with semver.compare                                              *)

Qualifies(tag) == tag.k = "ver" /\ tag.pre = "v"

RECURSIVE InsertRelease(_, _)
InsertRelease(sorted, tag) ==
    IF sorted = <<>> THEN <<tag>>
    ELSE IF VerLess(tag.n, sorted[Len(sorted)].n)
         THEN Append(InsertRelease(SubSeq(sorted, 1, Len(sorted) - 1), tag),
                     sorted[Len(sorted)])
         ELSE Append(sorted, tag)

KeepOrder(tags) == tags

RECURSIVE SortReleases(_)
SortReleases(tags) ==
    IF tags = <<>> THEN <<>>
    ELSE InsertRelease(SortReleases(SubSeq(tags, 1, Len(tags) - 1)),
                       tags[Len(tags)])

getNpmReleases(tags) == SortReleases(SelectSeq(tags, Qualifies))

PageAnswers == SeqsUpTo({Str("ver", "v", <<2, 5, 3>>), Str("ver", "v", <<8, 1, 0>>),
                         Str("ver", "", <<8, 1, 0>>), LibTag}, MaxTags)

----------------------------------------------------------------------------
(* listAvailable(): the tags of npm/npm and of npm/cli.  The filter reads  *)
(* release.name of every tag of npm/cli; a tag is a string and has no      *)
(* name, so the filter throws as soon as npm/cli has a tag.                *)

Pools    == SeqsUpTo(Tags, MaxPool)
CliPools == SeqsUpTo({LibTag, Str("ver", "v", <<8, 1, 0>>)}, 1)

listAvailable(npm, cli) ==
    IF cli # <<>> THEN [rejected |-> TRUE, err |-> "TypeError", pool |-> <<>>]
    ELSE [rejected |-> FALSE, err |-> "none", pool |-> npm \o cli]

----------------------------------------------------------------------------
(* resolveVersion(v, done) *)

Specifiers == {Empty, Latest, Match, Readme} \cup VerStrs \cup RangeStrs

\* what the callback of listAvailable().then does with the pool
ResolveInClean(v, pool) ==
    LET version == IF clean(v) # Null THEN clean(v)
                   ELSE IF validRange(v) THEN maxSatisfying(pool, v) ELSE Null
    IN IF version = Null THEN CbNoMatch(v) ELSE CbVal(version)

ResolveIn(v, pool) ==
    LET version == IF validRange(v) THEN maxSatisfying(pool, v) ELSE clean(v)
    IN IF version = Null THEN CbNoMatch(v) ELSE CbVal(version)

ResolveCall(v) ==
    /\ rPc = "idle"
    /\ rV' = v
    /\ rDone' = <<>>
    /\ fetched' = <<>>
    /\ available' = <<>>
    /\ releases' = <<>>
    /\ IF v = Latest \/ v = Empty
       THEN /\ rPc' = "latest"          \* latestVersion asks for page 1
            /\ page' = 1
            /\ requested' = <<1>>
       ELSE /\ page' = 1
            /\ requested' = <<>>
            /\ rPc' = IF v = Match THEN "current" ELSE "list"
    /\ UNCHANGED notResolve

\* page += 1
NextPageTwice(p) == p + 2

NextPage(p) == p + 1

\* getNpmReleases(page) answers; the loop goes on while releases is empty
LatestAnswer ==
    /\ rPc = "latest"
    /\ \E tags \in PageAnswers :
         /\ fetched' = Append(fetched, tags)
         /\ releases' = getNpmReleases(tags)
    /\ page' = NextPage(page)
    /\ IF releases' = <<>>
       THEN /\ rDone' = rDone
            /\ IF page' <= MaxPage
               THEN rPc' = "latest" /\ requested' = Append(requested, page')
               ELSE rPc' = "capped" /\ requested' = requested
       ELSE /\ rPc' = "returned"
            /\ requested' = requested
            /\ rDone' = Append(rDone, CbVal(releases'[Len(releases')]))
    /\ UNCHANGED <<rV, available>>
    /\ UNCHANGED notResolve

\* getNpmReleases(page) rejects: latestVersion rejects, and resolveVersion
\* has put no catch on it
LatestError ==
    /\ rPc = "latest"
    /\ rPc' = "unhandled"
    /\ UNCHANGED <<rV, releases, page, requested, fetched, available, rDone>>
    /\ UNCHANGED notResolve

\* nodist.getCurrentVersion answers
CurrentAnswer(ok) ==
    /\ rPc = "current"
    /\ rPc' = IF ok THEN "matching" ELSE "unhandled"
    /\ UNCHANGED <<rV, releases, page, requested, fetched, available, rDone>>
    /\ UNCHANGED notResolve

\* nodist.getMatchingNpmVersion answers
MatchingAnswer ==
    /\ rPc = "matching"
    /\ \/ \E npmVersion \in VerStrs :
            rPc' = "returned" /\ rDone' = Append(rDone, CbVal(npmVersion))
       \/ rPc' = "unhandled" /\ rDone' = rDone
    /\ UNCHANGED <<rV, releases, page, requested, fetched, available>>
    /\ UNCHANGED notResolve

\* listAvailable() settles
AvailableAnswer ==
    /\ rPc = "list"
    /\ \E npm \in Pools, cli \in CliPools :
         LET r == listAvailable(npm, cli)
         IN IF r.rejected
            THEN /\ available' = available
                 /\ rPc' = "failed"
                 /\ rDone' = Append(rDone, CbErr(r.err))
            ELSE /\ available' = r.pool
                 /\ rPc' = "returned"
                 /\ rDone' = Append(rDone, ResolveIn(rV, r.pool))
    /\ UNCHANGED <<rV, releases, page, requested, fetched>>
    /\ UNCHANGED notResolve

\* a request of octokit rejects
AvailableError ==
    /\ rPc = "list"
    /\ rPc' = "failed"
    /\ rDone' = Append(rDone, CbErr("FeedError"))
    /\ UNCHANGED <<rV, releases, page, requested, fetched, available>>
    /\ UNCHANGED notResolve

\* the caller is through with the call
ResolveReset ==
    /\ rPc \in {"returned", "failed", "unhandled", "capped"}
    /\ rPc' = "idle"
    /\ rV' = Null
    /\ rDone' = <<>>
    /\ fetched' = <<>>
    /\ available' = <<>>
    /\ releases' = <<>>
    /\ page' = 1
    /\ requested' = <<>>
    /\ UNCHANGED notResolve



ResolveInit ==
    /\ rPc = "idle"
    /\ rV = Null
    /\ releases = <<>>
    /\ page = 1
    /\ requested = <<>>
    /\ fetched = <<>>
    /\ available = <<>>
    /\ rDone = <<>>

ResolveNext ==
    \/ \E v \in Specifiers : ResolveCall(v)
    \/ LatestAnswer
    \/ LatestError
    \/ \E ok \in BOOLEAN : CurrentAnswer(ok)
    \/ MatchingAnswer
    \/ AvailableAnswer
    \/ AvailableError
    \/ ResolveReset

----------------------------------------------------------------------------
(* The install repository this.repoPath: install, remove, listInstalled.   *)
(* Calls run concurrently in one process; a call is a record with the      *)
(* function called (op), where it stands (pc), its cleaned version, the    *)
(* calls of its callback (out) and, for the properties, the downloads it   *)
(* has started (net), the deletions it has started (rimrafs), how the last *)
(* install of its version had ended when it was called (prior) and the     *)
(* number of directory entries it has read (entries).                      *)

Calls == 1..MaxCalls

RepoVersions == {<<1, 0, 0>>, <<2, 5, 3>>, <<8, 1, 0>>}
RepoNames    == {Str("ver", "", n) : n \in RepoVersions}
RepoArgs     == {Str("ver", p, n) : p \in Prefixes, n \in RepoVersions}
                    \cup {Readme}

\* semver.gte(version, '8.0.0')
SymlinkThreshold == Str("ver", "", <<8, 0, 0>>)

NoCall == [op |-> "none", pc |-> "idle", version |-> Null, out |-> <<>>,
           net |-> 0, rimrafs |-> 0, prior |-> "none", entries |-> 0]

NoCache == [set |-> FALSE, ls |-> <<>>]

\* the call calls its callback and is over
Finish(call, cb) == [call EXCEPT !.pc = "done", !.out = Append(@, cb)]

\* fs.existsSync(archivePath)
existsSync(version) == version \in repo

(* install(v, done) up to the promise chain: an invalid version and a      *)
(* version whose directory exists are answered at once                     *)
InstallStartAlways(version, prior) ==
    LET call == [NoCall EXCEPT !.op = "install", !.version = version,
                               !.prior = prior]
    IN IF valid(version) = Null THEN Finish(call, CbErr("InvalidVersion"))
       ELSE [call EXCEPT !.pc = "mkdirp"]

InstallStartLocked(version, prior) ==
    LET call == [NoCall EXCEPT !.op = "install", !.version = version,
                               !.prior = prior]
    IN IF valid(version) = Null THEN Finish(call, CbErr("InvalidVersion"))
       ELSE IF existsSync(version) THEN Finish(call, CbVal(version))
       ELSE IF \E d \in Calls : /\ calls[d].op = "install"
                                /\ calls[d].version = version
                                /\ calls[d].pc # "done"
            THEN Finish(call, CbErr("Busy"))
       ELSE [call EXCEPT !.pc = "mkdirp"]

InstallStart(version, prior) ==
    LET call == [NoCall EXCEPT !.op = "install", !.version = version,
                               !.prior = prior]
    IN IF valid(version) = Null THEN Finish(call, CbErr("InvalidVersion"))
       ELSE IF existsSync(version) THEN Finish(call, CbVal(version))
       ELSE [call EXCEPT !.pc = "mkdirp"]

\* how an install of the version has ended
Ended(version, how) ==
    IF version \in RepoNames
    THEN [lastInstall EXCEPT ![version] = how]
    ELSE lastInstall

InstallCall(c, v) ==
    /\ calls[c].op = "none"
    /\ LET version == clean(v)
           call == InstallStart(version,
                      IF version \in RepoNames THEN lastInstall[version]
                      ELSE "none")
       IN /\ calls' = [calls EXCEPT ![c] = call]
          /\ lastInstall' = IF call.pc = "done" /\ call.out[1].argc = 2
                            THEN Ended(version, "ok")
                            ELSE lastInstall
    /\ UNCHANGED <<repo, installedCache>>
    /\ UNCHANGED notRepo

\* mkdirp(archivePath) settles; the download starts when it has succeeded
Mkdirp(c) ==
    /\ calls[c].pc = "mkdirp"
    /\ \/ /\ repo' = repo \cup {calls[c].version}
          /\ calls' = [calls EXCEPT ![c].pc = "download", ![c].net = @ + 1]
          /\ UNCHANGED lastInstall
       \/ /\ calls' = [calls EXCEPT ![c] = Finish(@, CbErr("FilesystemError"))]
          /\ lastInstall' = Ended(calls[c].version, "nodir")
          /\ UNCHANGED repo
    /\ UNCHANGED installedCache
    /\ UNCHANGED notRepo

\* the stream of download, unzip and tar.x ends or fails
DownloadRollback(c) ==
    /\ calls[c].pc = "download"
    /\ \/ /\ IF gte(calls[c].version, SymlinkThreshold)
             THEN /\ calls' = [calls EXCEPT ![c].pc = "repair"]
                  /\ UNCHANGED lastInstall
             ELSE /\ calls' = [calls EXCEPT
                                 ![c] = Finish(@, CbVal(calls[c].version))]
                  /\ lastInstall' = Ended(calls[c].version, "ok")
          /\ UNCHANGED repo
       \/ /\ calls' = [calls EXCEPT ![c] = Finish(@, CbErr("DownloadFailed"))]
          /\ lastInstall' = Ended(calls[c].version, "err")
          /\ repo' = repo \ {calls[c].version}
    /\ UNCHANGED installedCache
    /\ UNCHANGED notRepo

Download(c) ==
    /\ calls[c].pc = "download"
    /\ \/ IF gte(calls[c].version, SymlinkThreshold)
          THEN /\ calls' = [calls EXCEPT ![c].pc = "repair"]
               /\ UNCHANGED lastInstall
          ELSE /\ calls' = [calls EXCEPT
                              ![c] = Finish(@, CbVal(calls[c].version))]
               /\ lastInstall' = Ended(calls[c].version, "ok")
       \/ /\ calls' = [calls EXCEPT ![c] = Finish(@, CbErr("DownloadFailed"))]
          /\ lastInstall' = Ended(calls[c].version, "err")
    /\ UNCHANGED <<repo, installedCache>>
    /\ UNCHANGED notRepo

\* resolveLinkedWorkspaces(archivePath/node_modules) settles
Repair(c) ==
    /\ calls[c].pc = "repair"
    /\ \/ /\ calls' = [calls EXCEPT ![c] = Finish(@, CbVal(calls[c].version))]
          /\ lastInstall' = Ended(calls[c].version, "ok")
       \/ /\ calls' = [calls EXCEPT ![c] = Finish(@, CbErr("RepairFailed"))]
          /\ lastInstall' = Ended(calls[c].version, "err")
    /\ UNCHANGED <<repo, installedCache>>
    /\ UNCHANGED notRepo

(* remove(v, done) up to rimraf: an invalid version and a version whose    *)
(* directory is absent are answered at once                                *)
RemoveStartAlways(version) ==
    LET call == [NoCall EXCEPT !.op = "remove", !.version = version]
    IN IF valid(version) = Null THEN Finish(call, CbErr("InvalidVersion"))
       ELSE [call EXCEPT !.pc = "rimraf", !.rimrafs = 1]

RemoveStart(version) ==
    LET call == [NoCall EXCEPT !.op = "remove", !.version = version]
    IN IF valid(version) = Null THEN Finish(call, CbErr("InvalidVersion"))
       ELSE IF ~existsSync(version) THEN Finish(call, CbVal(version))
       ELSE [call EXCEPT !.pc = "rimraf", !.rimrafs = 1]

RemoveCall(c, v) ==
    /\ calls[c].op = "none"
    /\ calls' = [calls EXCEPT ![c] = RemoveStart(clean(v))]
    /\ lastInstall' = Ended(clean(v), "none")
    /\ UNCHANGED <<repo, installedCache>>
    /\ UNCHANGED notRepo

\* rimraf(archivePath) settles
Rimraf(c) ==
    /\ calls[c].pc = "rimraf"
    /\ \/ /\ repo' = repo \ {calls[c].version}
          /\ calls' = [calls EXCEPT ![c] = Finish(@, CbVal(calls[c].version))]
       \/ /\ calls' = [calls EXCEPT ![c] = Finish(@, CbErr("FilesystemError"))]
          /\ UNCHANGED repo
    /\ lastInstall' = Ended(calls[c].version, "none")
    /\ UNCHANGED installedCache
    /\ UNCHANGED notRepo

(* listInstalled(cb) *)

\* vermanager.compareable(v): a number that orders versions as semver does
compareable(v) == v.n[1] * 1000000 + v.n[2] * 1000 + v.n[3]

\* the function given to ls.sort
sortCompareReversed(v1, v2) ==
    IF compareable(v1) < compareable(v2) THEN 1 ELSE 0 - 1

sortCompare(v1, v2) ==
    IF compareable(v1) > compareable(v2) THEN 1 ELSE 0 - 1

\* ls.sort(fn) as an insertion sort: an element moves left past every
\* element that fn puts after it
RECURSIVE InsertInstalled(_, _)
InsertInstalled(sorted, v) ==
    IF sorted = <<>> THEN <<v>>
    ELSE IF sortCompare(sorted[Len(sorted)], v) > 0
         THEN Append(InsertInstalled(SubSeq(sorted, 1, Len(sorted) - 1), v),
                     sorted[Len(sorted)])
         ELSE Append(sorted, v)

RECURSIVE SortInstalled(_)
SortInstalled(ls) ==
    IF ls = <<>> THEN <<>>
    ELSE InsertInstalled(SortInstalled(SubSeq(ls, 1, Len(ls) - 1)),
                         ls[Len(ls)])

\* ls.filter(semver.valid)
IsValid(name) == valid(name) # Null

\* the orders fs.readdir may list a directory in
Listings(dir) ==
    {ls \in [1..Cardinality(dir) -> dir] : \A e \in dir : \E i \in DOMAIN ls : ls[i] = e}

ListCall(c) ==
    /\ calls[c].op = "none"
    /\ calls' = [calls EXCEPT ![c] = [NoCall EXCEPT
                    !.op = "list",
                    !.pc = IF installedCache.set THEN "tick" ELSE "readdir"]]
    /\ UNCHANGED <<repo, installedCache, lastInstall>>
    /\ UNCHANGED notRepo

\* process.nextTick: the cache is handed to cb
ListTick(c) ==
    /\ calls[c].pc = "tick"
    /\ calls' = [calls EXCEPT ![c] = Finish(@, CbVal(installedCache.ls))]
    /\ UNCHANGED <<repo, installedCache, lastInstall>>
    /\ UNCHANGED notRepo

\* fs.readdir(this.repoPath) calls back
ListReaddir(c) ==
    /\ calls[c].pc = "readdir"
    /\ \/ /\ calls' = [calls EXCEPT ![c] = Finish(@, CbErr("ReadFailed"))]
          /\ UNCHANGED installedCache
       \/ \E ls \in Listings(repo) :
            LET sorted == SortInstalled(SelectSeq(ls, IsValid))
            IN /\ installedCache' = [set |-> TRUE, ls |-> sorted]
               /\ calls' = [calls EXCEPT
                     ![c] = Finish([@ EXCEPT !.entries = Len(ls)],
                                   CbVal(sorted))]
    /\ UNCHANGED <<repo, lastInstall>>
    /\ UNCHANGED notRepo

\* somebody puts a file that is no version into the repository
StrayFile ==
    /\ Readme \notin repo
    /\ repo' = repo \cup {Readme}
    /\ UNCHANGED <<installedCache, calls, lastInstall>>
    /\ UNCHANGED notRepo

\* the caller is through with the call
CallReturn(c) ==
    /\ calls[c].pc = "done"
    /\ calls' = [calls EXCEPT ![c] = NoCall]
    /\ UNCHANGED <<repo, installedCache, lastInstall>>
    /\ UNCHANGED notRepo

RepoInit ==
    /\ repo = {}
    /\ installedCache = NoCache
    /\ calls = [c \in Calls |-> NoCall]
    /\ lastInstall = [n \in RepoNames |-> "none"]

\* one call at a time: the next call begins when the last has called back
RepoNext ==
    \/ \E v \in RepoArgs : InstallCall(1, v)
    \/ Mkdirp(1)
    \/ Download(1)
    \/ Repair(1)
    \/ \E v \in RepoArgs : RemoveCall(1, v)
    \/ Rimraf(1)
    \/ ListCall(1)
    \/ ListTick(1)
    \/ ListReaddir(1)
    \/ StrayFile
    \/ CallReturn(1)

\* calls under way at once, on the version of RaceArgs
RaceArgs == {Str("ver", "", <<8, 1, 0>>)}

RepoConcurrentNext ==
    \/ \E c \in Calls, v \in RaceArgs : InstallCall(c, v)
    \/ \E c \in Calls : Mkdirp(c)
    \/ \E c \in Calls : Download(c)
    \/ \E c \in Calls : Repair(c)
    \/ \E c \in Calls, v \in RaceArgs : RemoveCall(c, v)
    \/ \E c \in Calls : Rimraf(c)
    \/ \E c \in Calls : ListCall(c)
    \/ \E c \in Calls : ListTick(c)
    \/ \E c \in Calls : ListReaddir(c)
    \/ \E c \in Calls : CallReturn(c)

----------------------------------------------------------------------------
(* The version files.  A path and the text of a file are strings, here     *)
(* sequences of tokens: a name, the separator "\\", white space.           *)

Sep      == "\\"
FileName == ".npm-version"
Drive    == "C:"
DirNames == <<"a", "b", "c", "d", "e", "f">>

\* the directories a working directory can be: the drive, and one chain of
\* directories below it
Dirs == {<<Drive>> \o SubSeq(DirNames, 1, d) : d \in 0..MaxDepth}

\* str.split('\\'): the names between the separators, "" where there is none
RECURSIVE SplitFrom(_, _, _, _)
SplitFrom(str, i, name, names) ==
    IF i > Len(str) THEN Append(names, name)
    ELSE IF str[i] = Sep THEN SplitFrom(str, i + 1, "", Append(names, name))
    ELSE SplitFrom(str, i + 1, str[i], names)

split(str) == SplitFrom(str, 1, "", <<>>)

\* arr.join('\\')
RECURSIVE join(_)
join(arr) ==
    IF arr = <<>> THEN <<>>
    ELSE IF Len(arr) = 1 THEN (IF arr[1] = "" THEN <<>> ELSE <<arr[1]>>)
    ELSE join(SubSeq(arr, 1, Len(arr) - 1)) \o <<Sep>>
             \o (IF arr[Len(arr)] = "" THEN <<>> ELSE <<arr[Len(arr)]>>)

\* process.cwd(): "C:\" for the drive itself, "C:\a\b" below it
processCwd(dir) == IF Len(dir) = 1 THEN <<dir[1], Sep>> ELSE join(dir)

\* the directory that the path of a file names: empty names (a doubled
\* separator) do not count
NonEmpty(name) == name # ""

DirOf(path) ==
    LET names == SelectSeq(split(path), NonEmpty)
    IN SubSeq(names, 1, Len(names) - 1)

\* the text of a file, and a file that is not there
Blank   == {" ", "\n"}
Texts   == {<<"8.1.0">>, <<"8.1.0", "\n">>, <<" ", "latest", "\n">>}
NoFile  == [kind |-> "none", data |-> <<>>]
File(t) == [kind |-> "file", data |-> t]
\* a symbolic link that leads back to itself
Loop    == [kind |-> "loop", data |-> <<>>]

\* String.prototype.trim
RECURSIVE trim(_)
trim(text) ==
    IF text = <<>> THEN <<>>
    ELSE IF text[1] \in Blank THEN trim(Tail(text))
    ELSE IF text[Len(text)] \in Blank THEN trim(SubSeq(text, 1, Len(text) - 1))
    ELSE text

\* fs.readFile: the text, or the error
readFile(file) ==
    IF file.kind = "file" THEN [err |-> "none", data |-> file.data]
    ELSE IF file.kind = "loop" THEN [err |-> "ELOOP", data |-> <<>>]
    ELSE [err |-> "ENOENT", data |-> <<>>]

readLocal(path) ==
    IF DirOf(path) \in DOMAIN localFiles
    THEN readFile(localFiles[DirOf(path)])
    ELSE [err |-> "ENOENT", data |-> <<>>]

\* what cb is called with: cb(), cb(er), cb(null, version, file)
Answer(argc, err, val, file) ==
    [argc |-> argc, err |-> err, val |-> val, file |-> file]

StoreIdle == wPc = "idle" /\ lPc = "idle" /\ gPc = "idle"

\* the tool is started in another directory
Chdir ==
    /\ StoreIdle
    /\ \E d \in Dirs : d # cwd /\ cwd' = d
    /\ UNCHANGED <<localFiles, globalFile, wPc, wText, wOut,
                   lPc, dirArray, reads, lOut, gPc, gOut>>
    /\ UNCHANGED notStore

\* somebody makes the version file of the directory a link in a cycle
LinkLoop ==
    /\ StoreIdle
    /\ localFiles[cwd] = NoFile
    /\ localFiles' = [localFiles EXCEPT ![cwd] = Loop]
    /\ UNCHANGED <<cwd, globalFile, wPc, wText, wOut,
                   lPc, dirArray, reads, lOut, gPc, gOut>>
    /\ UNCHANGED notStore

\* setLocal(versionSpec, cb) and setGlobal(versionSpec, cb) call fs.writeFile
SetCall(scope) ==
    /\ StoreIdle
    /\ wPc' = scope
    /\ wText' \in Texts
    /\ wOut' = <<>>
    /\ UNCHANGED <<cwd, localFiles, globalFile,
                   lPc, dirArray, reads, lOut, gPc, gOut>>
    /\ UNCHANGED notStore

\* fs.writeFile('./.npm-version') calls back
SetLocalWritten ==
    /\ wPc = "local"
    /\ wPc' = "done"
    /\ \/ /\ localFiles' = [localFiles EXCEPT ![cwd] = File(wText)]
          /\ wOut' = <<Answer(2, "none", <<>>,
                              processCwd(cwd) \o <<Sep, FileName>>)>>
       \/ /\ UNCHANGED localFiles
          /\ wOut' = <<Answer(1, "CouldNotSet", <<>>, <<>>)>>
    /\ UNCHANGED <<cwd, globalFile, wText,
                   lPc, dirArray, reads, lOut, gPc, gOut>>
    /\ UNCHANGED notStore

\* fs.writeFile(globalFile) calls back
SetGlobalWritten ==
    /\ wPc = "global"
    /\ wPc' = "done"
    /\ \/ /\ globalFile' = File(wText)
          /\ wOut' = <<Answer(0, "none", <<>>, <<>>)>>
       \/ /\ UNCHANGED globalFile
          /\ wOut' = <<Answer(1, "CouldNotSet", <<>>, <<>>)>>
    /\ UNCHANGED <<cwd, localFiles, wText,
                   lPc, dirArray, reads, lOut, gPc, gOut>>
    /\ UNCHANGED notStore

SetReturn ==
    /\ wPc = "done"
    /\ wPc' = "idle"
    /\ wText' = <<>>
    /\ wOut' = <<>>
    /\ UNCHANGED <<cwd, localFiles, globalFile,
                   lPc, dirArray, reads, lOut, gPc, gOut>>
    /\ UNCHANGED notStore

\* getLocal: dirArray.pop()
shift(arr) == Tail(arr)

pop(arr) == SubSeq(arr, 1, Len(arr) - 1)

\* getLocal: file
localFileOfCwd(arr) == processCwd(cwd) \o <<Sep, FileName>>

localFile(arr) == join(arr) \o <<Sep, FileName>>

\* getLocal(cb): search() reads the file of the working directory
GetLocalCall ==
    /\ lPc = "idle"
    /\ wPc = "idle"
    /\ dirArray' = split(processCwd(cwd))
    /\ lPc' = "reading"
    /\ reads' = <<>>
    /\ lOut' = <<>>
    /\ UNCHANGED <<cwd, localFiles, globalFile, wPc, wText, wOut, gPc, gOut>>
    /\ UNCHANGED notStore

\* fs.readFile(file) calls back: the text goes to cb, or search() goes on
\* with the directory above, or with none left calls cb()
GetLocalRead ==
    /\ lPc = "reading"
    /\ \E file \in {localFile(dirArray)} : \E r \in {readLocal(file)} :
          /\ reads' = Append(reads, file)
          /\ IF r.err # "none"
             THEN /\ dirArray' = pop(dirArray)
                  /\ IF Len(dirArray') = 0
                     THEN lPc' = "done" /\ lOut' = <<Answer(0, "none", <<>>, <<>>)>>
                     ELSE lPc' = "reading" /\ lOut' = lOut
             ELSE /\ dirArray' = dirArray
                  /\ lPc' = "done"
                  /\ lOut' = <<Answer(3, "none", trim(r.data), file)>>
    /\ UNCHANGED <<cwd, localFiles, globalFile, wPc, wText, wOut, gPc, gOut>>
    /\ UNCHANGED notStore

GetLocalReturn ==
    /\ lPc = "done"
    /\ lPc' = "idle"
    /\ dirArray' = <<>>
    /\ reads' = <<>>
    /\ lOut' = <<>>
    /\ UNCHANGED <<cwd, localFiles, globalFile, wPc, wText, wOut, gPc, gOut>>
    /\ UNCHANGED notStore

\* getGlobal(cb) calls fs.readFile(globalFile)
GetGlobalCall ==
    /\ gPc = "idle"
    /\ wPc = "idle"
    /\ gPc' = "reading"
    /\ gOut' = <<>>
    /\ UNCHANGED <<cwd, localFiles, globalFile, wPc, wText, wOut,
                   lPc, dirArray, reads, lOut>>
    /\ UNCHANGED notStore

\* getGlobal: what the callback of fs.readFile hands to cb
globalAnswerSilent(r) ==
    IF r.err # "none" THEN Answer(0, "none", <<>>, <<>>)
    ELSE Answer(3, "none", trim(r.data), <<>>)

globalAnswer(r) ==
    IF r.err # "none" THEN Answer(1, r.err, <<>>, <<>>)
    ELSE Answer(3, "none", trim(r.data), <<>>)

\* fs.readFile(globalFile) calls back
GetGlobalRead ==
    /\ gPc = "reading"
    /\ gPc' = "done"
    /\ gOut' = <<globalAnswer(readFile(globalFile))>>
    /\ UNCHANGED <<cwd, localFiles, globalFile, wPc, wText, wOut,
                   lPc, dirArray, reads, lOut>>
    /\ UNCHANGED notStore

GetGlobalReturn ==
    /\ gPc = "done"
    /\ gPc' = "idle"
    /\ gOut' = <<>>
    /\ UNCHANGED <<cwd, localFiles, globalFile, wPc, wText, wOut,
                   lPc, dirArray, reads, lOut>>
    /\ UNCHANGED notStore

StoreInit ==
    /\ cwd = <<Drive>>
    /\ localFiles = [d \in Dirs |-> NoFile]
    /\ globalFile = NoFile
    /\ wPc = "idle"
    /\ wText = <<>>
    /\ wOut = <<>>
    /\ lPc = "idle"
    /\ dirArray = <<>>
    /\ reads = <<>>
    /\ lOut = <<>>
    /\ gPc = "idle"
    /\ gOut = <<>>

StoreNext ==
    \/ Chdir
    \/ LinkLoop
    \/ \E scope \in {"local", "global"} : SetCall(scope)
    \/ SetLocalWritten
    \/ SetGlobalWritten
    \/ SetReturn
    \/ GetLocalCall
    \/ GetLocalRead
    \/ GetLocalReturn
    \/ GetGlobalCall
    \/ GetGlobalRead
    \/ GetGlobalReturn

\* setLocal and getLocal alone
SearchNext ==
    \/ Chdir
    \/ LinkLoop
    \/ SetCall("local")
    \/ SetLocalWritten
    \/ SetReturn
    \/ GetLocalCall
    \/ GetLocalRead
    \/ GetLocalReturn

----------------------------------------------------------------------------
(* resolveLinkedWorkspaces(dirPath).  The extracted package is a tree of   *)
(* paths; a path is the sequence of its names.  The walk starts at         *)
(* node_modules; a link points to a directory beside it (its target is the *)
(* name) or to the workspace directory outside node_modules ("..").        *)

WalkRoot  == <<"node_modules">>
Workspace == <<"workspaces">>
Names     == {"p", "q"}

\* the directories the walk can come to, and the entries they can have
WalkDirs   == UNION {{WalkRoot \o names : names \in [1..l -> Names]} : l \in 0..MaxLevel}
EntryPaths == WalkDirs \ {WalkRoot}
TreePaths  == WalkDirs \cup {Workspace}

Nothing      == [kind |-> "none", target |-> ""]
PlainFile    == [kind |-> "file", target |-> ""]
Directory    == [kind |-> "dir", target |-> ""]
Link(t)      == [kind |-> "link", target |-> t]
Junction(t)  == [kind |-> "junction", target |-> t]
LinkTargets  == Names \cup {".."}

Parent(path) == SubSeq(path, 1, Len(path) - 1)
Last(path)   == path[Len(path)]

\* path.join(dirPath, linkTarget)
pathJoin(dirPath, linkTarget) ==
    IF linkTarget = ".." THEN Workspace ELSE dirPath \o <<linkTarget>>

\* the packages tar.x can have extracted
EmptyTree ==
    [path \in TreePaths |->
        IF path \in {WalkRoot, Workspace} THEN Directory ELSE Nothing]

\* the sets of paths a package can have entries at: an entry is in a
\* directory
Shapes ==
    {S \in SUBSET EntryPaths :
        /\ Cardinality(S) <= MaxEntries
        /\ \A e \in S : Parent(e) = WalkRoot \/ Parent(e) \in S}

\* what the entry at a path of a shape can be: a directory when it has
\* entries; else a file, a directory, or a link to another name
EntriesOf(S, path) ==
    IF \E e \in S : Parent(e) = path THEN {Directory}
    ELSE {PlainFile, Directory}
            \cup {Link(n) : n \in LinkTargets \ {Last(path)}}

RECURSIVE Extract(_, _, _)
Extract(S, todo, t) ==
    IF todo = {} THEN {t}
    ELSE LET path == CHOOSE e \in todo : TRUE
         IN UNION {Extract(S, todo \ {path}, [t EXCEPT ![path] = entry]) :
                      entry \in EntriesOf(S, path)}

Trees == UNION {Extract(S, S, EmptyTree) : S \in Shapes}

\* a call of resolveLinkedWorkspaces: files is what readdir listed (names
\* with their kinds), i the position of the loop in it, kids the calls in
\* dirPromises
NoFrame == [pc |-> "none", files |-> <<>>, i |-> 0, fixedLinks |-> 0,
            linkTarget |-> "", kids |-> <<>>, result |-> 0]

IsPrefix(a, b) == Len(a) <= Len(b) /\ SubSeq(b, 1, Len(a)) = a

\* fs.rename(src, dst) of a directory: all below src is below dst afterwards
Moved(t, src, dst) ==
    [path \in TreePaths |->
        IF IsPrefix(dst, path)
        THEN LET from == src \o SubSeq(path, Len(dst) + 1, Len(path))
             IN IF from \in TreePaths THEN t[from] ELSE Nothing
        ELSE IF IsPrefix(src, path) THEN Nothing
        ELSE t[path]]

\* the names of the entries of a directory
Children(t, dir) ==
    {n \in Names : dir \o <<n>> \in TreePaths /\ t[dir \o <<n>>] # Nothing}

\* the loop over files, from position i to the next await: a directory gets
\* a call of its own, which starts its readdir; a link makes the loop wait
\* for readlink; at the end the call waits for Promise.all(dirPromises)
RECURSIVE RunLoop(_, _, _)
RunLoop(fr, dir, i) ==
    IF i > Len(fr[dir].files)
    THEN [fr EXCEPT ![dir].pc = "join", ![dir].i = i]
    ELSE LET file == fr[dir].files[i]
             filePath == dir \o <<file.name>>
         IN IF file.kind \in {"link", "junction"}
            THEN [fr EXCEPT ![dir].pc = "readlink", ![dir].i = i]
            ELSE IF file.kind = "dir" /\ filePath \in WalkDirs
            THEN RunLoop([fr EXCEPT
                            ![filePath] = [NoFrame EXCEPT !.pc = "readdir"],
                            ![dir].kids = Append(@, filePath)],
                         dir, i + 1)
            ELSE RunLoop(fr, dir, i + 1)

\* fixedLinks++, and on with the loop
Fixed(fr, dir) ==
    RunLoop([fr EXCEPT ![dir].fixedLinks = @ + 1], dir, fr[dir].i + 1)

FilePath(dir) == dir \o <<frames[dir].files[frames[dir].i].name>>

Quiet == \A d \in WalkDirs : frames[d].pc \in {"none", "resolved", "rejected"}

\* install calls resolveLinkedWorkspaces on the node_modules of a package
RepairStart ==
    /\ \A d \in WalkDirs : frames[d].pc = "none"
    /\ \E t \in Trees :
         /\ tree' = t
         /\ extracted' = t
    /\ frames' = [frames EXCEPT ![WalkRoot] = [NoFrame EXCEPT !.pc = "readdir"]]
    /\ junctionFailed' = {}
    /\ UNCHANGED notRepair

\* fs.readdirAsync(dirPath) settles
Readdir(dir) ==
    /\ frames[dir].pc = "readdir"
    /\ IF tree[dir].kind = "dir"
       THEN \E ls \in Listings(Children(tree, dir)) :
              frames' = RunLoop(
                  [frames EXCEPT ![dir].files =
                      [k \in DOMAIN ls |->
                          [name |-> ls[k], kind |-> tree[dir \o <<ls[k]>>].kind]]],
                  dir, 1)
       ELSE frames' = [frames EXCEPT ![dir].pc = "rejected"]
    /\ UNCHANGED <<tree, extracted, junctionFailed>>
    /\ UNCHANGED notRepair

\* fs.readlinkAsync(filePath) settles
Readlink(dir) ==
    /\ frames[dir].pc = "readlink"
    /\ IF tree[FilePath(dir)].kind \in {"link", "junction"}
       THEN frames' = [frames EXCEPT
                         ![dir].pc = "unlink",
                         ![dir].linkTarget = tree[FilePath(dir)].target]
       ELSE frames' = [frames EXCEPT ![dir].pc = "rejected"]
    /\ UNCHANGED <<tree, extracted, junctionFailed>>
    /\ UNCHANGED notRepair

\* fs.unlinkAsync(filePath) settles
Unlink(dir) ==
    /\ frames[dir].pc = "unlink"
    /\ IF tree[FilePath(dir)].kind \in {"link", "junction", "file"}
       THEN /\ tree' = [tree EXCEPT ![FilePath(dir)] = Nothing]
            /\ frames' = [frames EXCEPT ![dir].pc = "symlink"]
       ELSE /\ tree' = tree
            /\ frames' = [frames EXCEPT ![dir].pc = "rejected"]
    /\ UNCHANGED <<extracted, junctionFailed>>
    /\ UNCHANGED notRepair

\* fs.symlinkAsync(linkTarget, filePath, 'junction') settles: the junction is
\* there, or the call throws and the catch goes on to rename
Symlink(dir) ==
    /\ frames[dir].pc = "symlink"
    /\ \/ /\ tree[dir].kind = "dir"
          /\ tree[FilePath(dir)] = Nothing
          /\ tree' = [tree EXCEPT
                        ![FilePath(dir)] = Junction(frames[dir].linkTarget)]
          /\ frames' = Fixed(frames, dir)
          /\ UNCHANGED junctionFailed
       \/ /\ frames' = [frames EXCEPT ![dir].pc = "rename"]
          /\ junctionFailed' = junctionFailed \cup {FilePath(dir)}
          /\ UNCHANGED tree
    /\ UNCHANGED extracted
    /\ UNCHANGED notRepair

\* fs.renameAsync(path.join(dirPath, linkTarget), filePath) settles
Rename(dir) ==
    /\ frames[dir].pc = "rename"
    /\ LET src == pathJoin(dir, frames[dir].linkTarget)
           dst == FilePath(dir)
       IN IF /\ src \in TreePaths
             /\ tree[src] # Nothing
             /\ tree[dir].kind = "dir"
             /\ tree[dst] = Nothing
          THEN /\ tree' = Moved(tree, src, dst)
               /\ frames' = Fixed(frames, dir)
          ELSE /\ tree' = tree
               /\ frames' = [frames EXCEPT ![dir].pc = "rejected"]
    /\ UNCHANGED <<extracted, junctionFailed>>
    /\ UNCHANGED notRepair

\* the sum of the counts of the calls in dirPromises
RECURSIVE SumOf(_, _)
SumOf(fr, kids) ==
    IF kids = <<>> THEN 0 ELSE fr[kids[1]].result + SumOf(fr, Tail(kids))

\* await Promise.all(dirPromises) settles: it rejects once one of the calls
\* has rejected, and resolves with the sum once all have resolved
Join(dir) ==
    /\ frames[dir].pc = "join"
    /\ LET kids == frames[dir].kids
       IN \/ /\ \E k \in DOMAIN kids : frames[kids[k]].pc = "rejected"
             /\ frames' = [frames EXCEPT ![dir].pc = "rejected"]
          \/ /\ \A k \in DOMAIN kids : frames[kids[k]].pc = "resolved"
             /\ frames' = [frames EXCEPT
                             ![dir].pc = "resolved",
                             ![dir].result = SumOf(frames, kids)
                                                + frames[dir].fixedLinks]
    /\ UNCHANGED <<tree, extracted, junctionFailed>>
    /\ UNCHANGED notRepair

\* install is through with the walk, and with the package
RepairReturn ==
    /\ frames[WalkRoot].pc \in {"resolved", "rejected"}
    /\ Quiet
    /\ frames' = [d \in WalkDirs |-> NoFrame]
    /\ tree' = EmptyTree
    /\ extracted' = EmptyTree
    /\ junctionFailed' = {}
    /\ UNCHANGED notRepair

RepairInit ==
    /\ tree = EmptyTree
    /\ extracted = EmptyTree
    /\ frames = [d \in WalkDirs |-> NoFrame]
    /\ junctionFailed = {}

RepairNext ==
    \/ RepairStart
    \/ \E dir \in WalkDirs : Readdir(dir)
    \/ \E dir \in WalkDirs : Readlink(dir)
    \/ \E dir \in WalkDirs : Unlink(dir)
    \/ \E dir \in WalkDirs : Symlink(dir)
    \/ \E dir \in WalkDirs : Rename(dir)
    \/ \E dir \in WalkDirs : Join(dir)
    \/ RepairReturn

----------------------------------------------------------------------------
(* resolveVersionLocally(spec, done) *)

\* what the callback given to listInstalled is called with: (er) with
\* installed undefined, or (null, installed)
ListFailed    == [er |-> TRUE, ls |-> <<>>]
Listed(ls)    == [er |-> FALSE, ls |-> ls]
NotListed     == [er |-> FALSE, ls |-> <<>>]

\* the lists listInstalled hands over: the valid entries of a directory,
\* sorted
InstalledLists ==
    {SortInstalled(SelectSeq(ls, IsValid)) :
        ls \in UNION {Listings(dir) : dir \in SUBSET (RepoNames \cup {Readme})}}

\* the inner function resolveVersion(spec, installed): semver.maxSatisfying
\* throws on an installed that is undefined
LocalResolve(spec, installed) ==
    IF validRange(spec)
    THEN IF installed.er
         THEN [thrown |-> TRUE, cb |-> CbNone]
         ELSE [thrown |-> FALSE, cb |-> CbVal(maxSatisfying(installed.ls, spec))]
    ELSE [thrown |-> FALSE, cb |-> CbVal(clean(spec))]

\* installed[installed.length - 1]
LastOf(ls) == IF ls = <<>> THEN Null ELSE ls[Len(ls)]

LocalCall(spec) ==
    /\ qPc = "idle"
    /\ qSpec' = spec
    /\ qInstalled' = NotListed
    /\ IF spec = Empty
       THEN qPc' = "returned" /\ qDone' = <<CbNone>>
       ELSE qPc' = "listing" /\ qDone' = <<>>
    /\ UNCHANGED notLocal

\* listInstalled calls back
LocalListed ==
    /\ qPc = "listing"
    /\ \E installed \in {ListFailed} \cup {Listed(ls) : ls \in InstalledLists} :
         /\ qInstalled' = installed
         /\ IF qSpec = Latest
            THEN IF installed.er
                 THEN qPc' = "thrown" /\ qDone' = qDone
                 ELSE /\ qPc' = "returned"
                      /\ qDone' = Append(qDone, CbVal(LastOf(installed.ls)))
            ELSE IF qSpec = Match
            THEN qPc' = "current" /\ qDone' = qDone
            ELSE LET r == LocalResolve(qSpec, installed)
                 IN IF r.thrown
                    THEN qPc' = "thrown" /\ qDone' = qDone
                    ELSE qPc' = "returned" /\ qDone' = Append(qDone, r.cb)
    /\ UNCHANGED qSpec
    /\ UNCHANGED notLocal

\* nodist.getCurrentVersion calls back
LocalCurrent(ok) ==
    /\ qPc = "current"
    /\ IF ok
       THEN qPc' = "matching" /\ qDone' = qDone
       ELSE qPc' = "returned" /\ qDone' = Append(qDone, CbErr("HostError"))
    /\ UNCHANGED <<qSpec, qInstalled>>
    /\ UNCHANGED notLocal

\* nodist.getMatchingNpmVersion calls back
LocalMatching ==
    /\ qPc = "matching"
    /\ \/ \E npmVersion \in VerStrs :
            LET r == LocalResolve(npmVersion, qInstalled)
            IN IF r.thrown
               THEN qPc' = "thrown" /\ qDone' = qDone
               ELSE qPc' = "returned" /\ qDone' = Append(qDone, r.cb)
       \/ qPc' = "returned" /\ qDone' = Append(qDone, CbErr("HostError"))
    /\ UNCHANGED <<qSpec, qInstalled>>
    /\ UNCHANGED notLocal

\* the caller is through with the call
LocalReset ==
    /\ qPc \in {"returned", "thrown"}
    /\ qPc' = "idle"
    /\ qSpec' = Null
    /\ qInstalled' = NotListed
    /\ qDone' = <<>>
    /\ UNCHANGED notLocal

LocalInit ==
    /\ qPc = "idle"
    /\ qSpec = Null
    /\ qInstalled = NotListed
    /\ qDone = <<>>

LocalNext ==
    \/ \E spec \in Specifiers : LocalCall(spec)
    \/ LocalListed
    \/ \E ok \in BOOLEAN : LocalCurrent(ok)
    \/ LocalMatching
    \/ LocalReset

----------------------------------------------------------------------------
(* Specifications *)

Init == ResolveInit /\ RepoInit /\ StoreInit /\ RepairInit /\ LocalInit

SpecResolve == Init /\ [][ResolveNext]_vars

SpecRepo == Init /\ [][RepoNext]_vars

SpecRepoConcurrent == Init /\ [][RepoConcurrentNext]_vars

SpecStore == Init /\ [][StoreNext]_vars

\* the callback of fs.readFile is called once the read has settled
SpecSearchFair == Init /\ [][SearchNext]_vars /\ WF_vars(GetLocalRead)

SpecRepair == Init /\ [][RepairNext]_vars

SpecLocal == Init /\ [][LocalNext]_vars

----------------------------------------------------------------------------
(* Properties of resolveVersion *)

\* the call went through listAvailable and its callback ran on a pool
ResolvedInPool == rPc = "returned" /\ rV \notin {Empty, Latest, Match}

Satisfying == {i \in 1..Len(available) : satisfies(available[i], rV)}

\* C3: for a range r and a pool P, resolveVersion(r) calls done once, with an
\* element of P that satisfies r and that no satisfying element of P exceeds,
\* or with the NoMatch error when no element of P satisfies r.
C3_MaxSatisfyingOfPool ==
    (ResolvedInPool /\ validRange(rV)) =>
        /\ Len(rDone) = 1
        /\ IF Satisfying = {}
           THEN rDone[1].argc = 1 /\ rDone[1].err = "NoMatch"
           ELSE /\ rDone[1].argc = 2
                /\ \E i \in Satisfying :
                      /\ rDone[1].val = available[i]
                      /\ \A j \in Satisfying :
                            ~VerLess(available[i].n, available[j].n)

\* the pool 1.0.0, 2.0.0, 2.5.3 and the range ^2.0.0 gave 2.5.3
C3_Witness ==
    /\ ResolvedInPool
    /\ rV = Str("range", "^", <<2, 0, 0>>)
    /\ available = <<Str("ver", "", <<1, 0, 0>>), Str("ver", "", <<2, 0, 0>>),
                     Str("ver", "", <<2, 5, 3>>)>>
    /\ rDone = <<CbVal(Str("ver", "", <<2, 5, 3>>))>>

\* an exact version v was resolved in a pool that holds the string v
ExactInPool ==
    /\ ResolvedInPool
    /\ rV.k = "ver"
    /\ \E i \in 1..Len(available) : available[i] = rV

\* the first element of the pool that spells the version of v
FirstSpelling ==
    available[CHOOSE i \in Satisfying : \A j \in Satisfying : i <= j]

\* C4 as stated: resolving an exact version v in a pool that contains v
\* returns exactly the string v.
C4_ReturnsExactlyV == ExactInPool => rDone = <<CbVal(rV)>>

\* C4, amended: resolving an exact version v in a pool that contains v
\* returns the first element of the pool that spells the version of v; that
\* is v itself unless the other spelling of the version (with or without the
\* v prefix) comes before it in the pool.
C4_ReturnsFirstSpelling ==
    ExactInPool =>
        /\ rDone = <<CbVal(FirstSpelling)>>
        /\ FirstSpelling.n = rV.n
        /\ (\A i \in Satisfying : available[i] = rV) => rDone = <<CbVal(rV)>>

\* v1.0.0 resolved in a pool of several tags that holds v1.0.0 once
C4_Witness ==
    /\ ExactInPool
    /\ Len(available) >= 2
    /\ rV.pre = "v"
    /\ \A i \in Satisfying : available[i] = rV
    /\ rDone = <<CbVal(rV)>>

\* the empty specifier or latest, a first page without a qualifying tag and
\* a second page that holds v8.1.0 alone
EmptyFirstPage ==
    /\ rV \in {Empty, Latest}
    /\ rPc = "returned"
    /\ Len(fetched) >= 2
    /\ \A i \in 1..Len(fetched[1]) : ~Qualifies(fetched[1][i])
    /\ fetched[2] = <<Str("ver", "v", <<8, 1, 0>>)>>

\* C5 as stated: with a first page without qualifying entries and a second
\* page ["v8.1.0"], the empty specifier resolves to "8.1.0".
C5_ResolvesToCleaned ==
    EmptyFirstPage => rDone = <<CbVal(Str("ver", "", <<8, 1, 0>>))>>

\* C5, amended: with a first page without qualifying entries and a second
\* page ["v8.1.0"], the empty specifier (or latest) asks for pages 1 and 2
\* and resolves to the tag as the feed spells it, "v8.1.0".
C5_ResolvesToTag ==
    EmptyFirstPage =>
        /\ requested = <<1, 2>>
        /\ rDone = <<CbVal(Str("ver", "v", <<8, 1, 0>>))>>

\* the empty specifier was resolved from the second page
C5_Witness == EmptyFirstPage /\ rV = Empty /\ Len(rDone) = 1

\* nothing of the call is pending any more
ResolveSettled == rPc \in {"returned", "failed", "unhandled"}

\* C6: a call of resolveVersion whose operations have all settled has called
\* done exactly once, with a version or with the error that ended it.
C6_OneOutcome == ResolveSettled => Len(rDone) = 1

\* the page has a tag of the shape vMAJOR.MINOR.PATCH
HasQualifying(tags) == \E i \in DOMAIN tags : Qualifies(tags[i])

\* a tag of the page that qualifies and that no qualifying tag of the page
\* is greater than
GreatestOf(tags, tag) ==
    /\ \E i \in DOMAIN tags : tags[i] = tag
    /\ Qualifies(tag)
    /\ \A i \in DOMAIN tags :
          Qualifies(tags[i]) => ~VerLess(tag.n, tags[i].n)

\* C18: latestVersion asks for the pages 1, 2, 3, ... in this order, each
\* once, goes on as long as the pages answered have no qualifying tag,
\* returns at the first page that has one, with the greatest tag of that
\* page, and never calls done without a version.
C18_LatestPagesInOrder ==
    (rV \in {Empty, Latest} /\ rPc \in {"latest", "returned", "capped"}) =>
        /\ \A k \in DOMAIN requested : requested[k] = k
        /\ \A k \in 1..(Len(fetched) - 1) : ~HasQualifying(fetched[k])
        /\ (rPc = "returned") <=>
              (fetched # <<>> /\ HasQualifying(fetched[Len(fetched)]))
        /\ rPc = "returned" =>
              /\ Len(requested) = Len(fetched)
              /\ Len(rDone) = 1
              /\ rDone[1].argc = 2
              /\ GreatestOf(fetched[Len(fetched)], rDone[1].val)
        /\ rPc = "latest" =>
              /\ Len(requested) = Len(fetched) + 1
              /\ rDone = <<>>
        /\ rPc = "capped" => rDone = <<>>

\* latest was resolved from the third page, which lists its greatest tag
\* first
C18_Witness ==
    /\ rV = Latest
    /\ rPc = "returned"
    /\ requested = <<1, 2, 3>>
    /\ fetched[3] = <<Str("ver", "v", <<8, 1, 0>>), Str("ver", "v", <<2, 5, 3>>)>>

----------------------------------------------------------------------------
(* Properties of install, remove and listInstalled *)

\* C1 as stated: a call of install(v) that follows an ended call of
\* install(v), with no remove(v) in between, starts no download, finds the
\* directory and reports the version, as the first call did.
C1_BothCallsReportVersion ==
    \A c \in Calls :
        (calls[c].op = "install" /\ calls[c].prior # "none") =>
            /\ calls[c].net = 0
            /\ calls[c].pc = "done"
            /\ calls[c].out = <<CbVal(calls[c].version)>>
            /\ calls[c].prior = "ok"

\* C1, amended: a call of install(v) that follows a call of install(v) that
\* reported success, with no remove(v) in between, starts no download, finds
\* the directory and reports the same version at once.
C1_SecondCallAfterSuccess ==
    \A c \in Calls :
        (calls[c].op = "install" /\ calls[c].prior = "ok") =>
            /\ calls[c].net = 0
            /\ calls[c].pc = "done"
            /\ calls[c].out = <<CbVal(calls[c].version)>>

\* a second install of a version of npm 8 has been answered
C1_Witness ==
    \E c \in Calls :
        /\ calls[c].op = "install"
        /\ calls[c].prior = "ok"
        /\ calls[c].pc = "done"
        /\ calls[c].version = Str("ver", "", <<8, 1, 0>>)

\* C2: a call of remove(v) for a valid version whose directory is absent
\* calls back at once with the cleaned version, starts no deletion and leaves the
\* install repository as it was.
C2_RemoveAbsent ==
    [][\A c \in Calls :
          (/\ calls[c].op = "none"
           /\ calls'[c].op = "remove"
           /\ valid(calls'[c].version) # Null
           /\ calls'[c].version \notin repo) =>
              /\ repo' = repo
              /\ calls'[c].pc = "done"
              /\ calls'[c].rimrafs = 0
              /\ calls'[c].out = <<CbVal(calls'[c].version)>>]_vars

\* remove of an absent version has been answered, in a repository that
\* holds another version
C2_Witness ==
    \E c \in Calls :
        /\ calls[c].op = "remove"
        /\ calls[c].pc = "done"
        /\ calls[c].rimrafs = 0
        /\ calls[c].out = <<CbVal(calls[c].version)>>
        /\ repo \cap RepoNames # {}

AscendingValid(dir) ==
    LET vs == {e \in dir : e.k = "ver"}
    IN CHOOSE ls \in [1..Cardinality(vs) -> vs] :
           \A i, j \in 1..Cardinality(vs) :
               i < j => VerLess(ls[i].n, ls[j].n)

\* C7: a call of listInstalled that reads the directory hands to its
\* callback the entries that are valid versions, each once, in ascending
\* semantic order, in whatever order the directory was listed.
C7_ListedAscending ==
    [][\A c \in Calls :
          (/\ calls[c].pc = "readdir"
           /\ calls'[c].pc = "done"
           /\ calls'[c].out[1].argc = 2) =>
              calls'[c].out = <<CbVal(AscendingValid(repo))>>]_vars

\* a directory of three versions and README has been listed
C7_Witness ==
    \E c \in Calls :
        /\ calls[c].op = "list"
        /\ calls[c].pc = "done"
        /\ calls[c].entries = 4
        /\ Len(calls[c].out[1].val) = 3

\* C13: once listInstalled has put a list into the cache, the cache keeps
\* that list whatever install and remove do afterwards, and every later
\* call of listInstalled hands that list to its callback.
C13_CacheKept ==
    [][/\ installedCache.set => installedCache' = installedCache
       /\ \A c \in Calls :
            (calls[c].pc = "tick" /\ calls'[c].pc = "done") =>
                calls'[c].out = <<CbVal(installedCache.ls)>>]_vars

\* C14: however calls of listInstalled interleave, the cache is assigned
\* once and only the first call reads the directory: with the cache set, no
\* call gets a listing from fs.readdir.
C14_CacheAssignedOnce ==
    [][\A c \in Calls :
          installedCache.set =>
              ~(/\ calls[c].pc = "readdir"
                /\ calls'[c].pc = "done"
                /\ calls'[c].out[1].argc = 2)]_vars

\* C16: install checks the directory and nothing else: a call for a valid
\* version whose directory is absent goes on to mkdirp and the download
\* whatever other calls are under way, and mkdirp of a directory that is
\* there succeeds, so that two downloads of one version run at once.
C16_NothingSerialisesInstall ==
    [][\A c \in Calls :
          /\ (/\ calls[c].op = "none"
              /\ calls'[c].op = "install"
              /\ valid(calls'[c].version) # Null
              /\ calls'[c].version \notin repo) => calls'[c].pc = "mkdirp"
          /\ (calls[c].pc = "mkdirp" /\ calls'[c].pc = "download") =>
                 /\ calls'[c].net = 1
                 /\ calls[c].version \in repo']_vars

\* two calls of install download the same version at the same time
C16_Witness ==
    \E c, d \in Calls :
        /\ c # d
        /\ calls[c].op = "install" /\ calls[d].op = "install"
        /\ calls[c].pc = "download" /\ calls[d].pc = "download"
        /\ calls[c].version = calls[d].version
        /\ calls[c].net = 1 /\ calls[d].net = 1

----------------------------------------------------------------------------
(* Properties of getLocal and getGlobal *)

\* the working directory and the directories above it, by their depth
Above(i) == SubSeq(cwd, 1, i)

HasLocalFile(i) == localFiles[Above(i)].kind = "file"

\* the depth of the nearest directory that has a local version file
Nearest == CHOOSE i \in 1..Len(cwd) :
               HasLocalFile(i) /\ \A j \in 1..Len(cwd) : HasLocalFile(j) => j <= i

\* the path of the version file of a directory, as Windows writes it
VersionFilePath(dir) ==
    <<dir[1]>> \o [k \in 1..(2 * (Len(dir) - 1)) |->
                      IF k % 2 = 1 THEN Sep ELSE dir[(k \div 2) + 1]]
               \o <<Sep, FileName>>

\* C8: getLocal() hands to cb the trimmed text and the path of the local
\* version file of the nearest directory that has one, the working
\* directory itself or else the closest one above it.
C8_NearestLocalFile ==
    (lPc = "done" /\ \E i \in 1..Len(cwd) : HasLocalFile(i)) =>
        /\ Len(lOut) = 1
        /\ lOut[1].argc = 3
        /\ lOut[1].err = "none"
        /\ lOut[1].val = trim(localFiles[Above(Nearest)].data)
        /\ lOut[1].val # <<>>
        /\ lOut[1].val[1] \notin Blank
        /\ lOut[1].val[Len(lOut[1].val)] \notin Blank
        /\ DirOf(lOut[1].file) = Above(Nearest)
        /\ Len(cwd) > 1 => lOut[1].file = VersionFilePath(Above(Nearest))

\* from C:\a\b\c, with a file in C:\a and none in C:\a\b and C:\a\b\c,
\* getLocal has answered
C8_Witness ==
    /\ lPc = "done"
    /\ cwd = <<"C:", "a", "b", "c">>
    /\ HasLocalFile(2) /\ ~HasLocalFile(3) /\ ~HasLocalFile(4)
    /\ localFiles[Above(2)].data = <<" ", "latest", "\n">>
    /\ lOut = <<Answer(3, "none", <<"latest">>,
                       <<"C:", Sep, "a", Sep, FileName>>)>>

\* C9: with no local version file in the working directory or above it,
\* getLocal() calls cb with no argument; with the global file missing,
\* getGlobal() calls cb with the error of the read and nothing else.
C9_AbsenceByScope ==
    /\ (lPc = "done" /\ \A i \in 1..Len(cwd) : ~HasLocalFile(i)) =>
            /\ Len(lOut) = 1
            /\ lOut[1].argc = 0
            /\ lOut[1].err = "none"
    /\ (gPc = "done" /\ globalFile.kind = "none") =>
            /\ Len(gOut) = 1
            /\ gOut[1].argc = 1
            /\ gOut[1].err = readFile(globalFile).err
            /\ gOut[1].err = "ENOENT"

\* both lookups have answered with nothing to find, getLocal having looked
\* in three directories
C9_Witness ==
    /\ lPc = "done" /\ lOut[1].argc = 0 /\ Len(reads) = 3
    /\ gPc = "done" /\ gOut[1].argc = 1

\* the names of the working directory, as getLocal splits it
Segments == split(processCwd(cwd))

----------------------------------------------------------------------------
(* Properties of resolveLinkedWorkspaces *)

\* the links of the extracted package
ExtractedLinks == {e \in EntryPaths : extracted[e].kind = "link"}

\* the package had exactly one link, its target was a directory, its
\* junction could not be made, and the walk is over
OneLinkNoJunction(link) ==
    /\ frames[WalkRoot].pc \in {"resolved", "rejected"}
    /\ Quiet
    /\ ExtractedLinks = {link}
    /\ link \in junctionFailed
    /\ extracted[pathJoin(Parent(link), extracted[link].target)] = Directory

\* C10: the walk of a tree with exactly one symbolic link, whose junction
\* cannot be made, ends with the directory the link pointed to moved to the
\* path of the link, and returns the count 1.
C10_MovedAndCountedOnce ==
    \A link \in EntryPaths :
        OneLinkNoJunction(link) =>
            /\ tree[link] = Directory
            /\ tree[pathJoin(Parent(link), extracted[link].target)] = Nothing
            /\ frames[WalkRoot].pc = "resolved"
            /\ frames[WalkRoot].result = 1

\* where a link of the extracted package points to
TargetOf(link) == pathJoin(Parent(link), extracted[link].target)

\* every link of the extracted package points to a directory of its own
LinksToDirectories ==
    /\ \A link \in ExtractedLinks : extracted[TargetOf(link)] = Directory
    /\ \A l1, l2 \in ExtractedLinks : TargetOf(l1) = TargetOf(l2) => l1 = l2

\* C15: however the calls on the directories of the tree interleave, a link
\* pointing to a directory beside it that is walked included, the walk
\* resolves, with the number of links the tree had when the walk started.
C15_CountsEveryLink ==
    (/\ frames[WalkRoot].pc \in {"resolved", "rejected"}
     /\ Quiet
     /\ LinksToDirectories) =>
        /\ frames[WalkRoot].pc = "resolved"
        /\ frames[WalkRoot].result = Cardinality(ExtractedLinks)

----------------------------------------------------------------------------
(* Properties of resolveVersionLocally *)

\* C19: resolveVersionLocally calls done once whatever the specifier and
\* whatever listInstalled and the host runtime answer, and an error of
\* listInstalled reaches done as an error.
C19_LocalOneOutcome ==
    qPc \in {"returned", "thrown"} =>
        /\ Len(qDone) = 1
        /\ qInstalled.er => qDone[1].argc = 1

\* no element of the pool satisfies the specifier
NoneSatisfies(v, pool) ==
    IF validRange(v) THEN \A i \in DOMAIN pool : ~satisfies(pool[i], v)
    ELSE TRUE

\* C12: at both call sites, resolveVersion over the list of the remote
\* catalog and resolveVersionLocally over the installed versions, a
\* specifier that no version of the pool satisfies is answered with the
\* NoMatch error that quotes the specifier.
C12_NoMatchAtBothSites ==
    /\ (/\ rPc = "returned"
        /\ rV \notin {Empty, Latest, Match}
        /\ NoneSatisfies(rV, available)) => rDone = <<CbNoMatch(rV)>>
    /\ (/\ qPc = "returned"
        /\ qSpec \notin {Empty, Latest, Match}
        /\ ~qInstalled.er
        /\ NoneSatisfies(qSpec, qInstalled.ls)) => qDone = <<CbNoMatch(qSpec)>>

====
